---- MODULE Spec2Model ----
(***************************************************************************)
(* sentry-eyre: conversion of an eyre::Report into a Sentry Event          *)
(* (event_from_report) and its submission through the active Hub           *)
(* (capture_report, CaptureReportExt for Hub).  Source: src/src/lib.rs.    *)
(*                                                                         *)
(* The three collaborators lib.rs calls (sentry_core::event_from_error,    *)
(* sentry_backtrace::parse_stacktrace, Hub::with_active / capture_event)   *)
(* are modelled at their call sites by the behaviour lib.rs relies on.     *)
(***************************************************************************)
EXTENDS Integers, Sequences, FiniteSets, TLC

\* ------------------------------------------------------------------ bounds
MaxChain == 3       \* longest cause chain (top-level error plus sources)
MaxFrames == 2      \* most frames in a captured backtrace
NumThreads == 2     \* threads calling capture_report concurrently
MaxCalls == 2       \* capture_report calls made in one behaviour
MaxBuilds == 2      \* direct event_from_report calls on one report

\* ------------------------------------------------------------- data model
Msgs == {"e1", "e2"}
Creator == "creator"                 \* the function that created the report
Symbols == {Creator, "caller"}
Unknown == "<unknown>"               \* how an unresolved frame is rendered
NilUuid == 0                         \* Uuid::default(), the nil identifier

SeqsUpTo(S, n) == UNION {[1..k -> S] : k \in 0..n}
Reverse(s) == [i \in 1..Len(s) |-> s[Len(s) + 1 - i]]

\* A captured frame: its symbol, or resolved = FALSE when the symbol could
\* not be resolved.
CapturedFrames == [resolved : {TRUE}, symbol : Symbols]
                    \cup {[resolved |-> FALSE, symbol |-> ""]}
\* Option<&Backtrace> as returned by report.backtrace().
NoBacktrace == [some |-> FALSE, frames |-> <<>>]
Backtraces == {NoBacktrace}
                \cup [some : {TRUE}, frames : SeqsUpTo(CapturedFrames, MaxFrames)]
\* chain[1] is the top-level error; chain[i + 1] is chain[i].source().
Chains == SeqsUpTo(Msgs, MaxChain) \ {<<>>}
Reports == [chain : Chains, backtrace : Backtraces]

\* Option<Stacktrace> of an exception record.
NoStacktrace == [some |-> FALSE, frames |-> <<>>]
NoEvent == [exception |-> <<>>]

\* ------------------------------------------------- external collaborators
\* One record per error, no stacktrace (sentry_core, called at line 61).
exception_from_error(msg) == [value |-> msg, stacktrace |-> NoStacktrace]

\* The walk over err.source() of sentry_core::event_from_error: the record of
\* the error, then the records of its sources, pushed in chain order.
RECURSIVE walk_sources(_)
walk_sources(chain) ==
    IF chain = <<>> THEN <<>>
    ELSE <<exception_from_error(Head(chain))>> \o walk_sources(Tail(chain))

\* sentry_core::event_from_error (line 61): "exception records are sorted in
\* reverse" (line 65), i.e. the deepest cause first, the top-level error last.
event_from_error(chain) == [exception |-> Reverse(walk_sources(chain))]

\* format!("{backtrace:#?}") (line 69): one numbered text line per frame.
format_backtrace(frames) ==
    [i \in 1..Len(frames) |->
        [no |-> i - 1,
         text |-> IF frames[i].resolved THEN frames[i].symbol ELSE Unknown]]

\* sentry_backtrace::parse_stacktrace (line 69): one frame per line of text,
\* innermost frame last; no frame at all gives None.
parse_stacktrace(text) ==
    IF Len(text) = 0 THEN NoStacktrace
    ELSE [some |-> TRUE,
          frames |-> Reverse([i \in 1..Len(text) |-> [function |-> text[i].text]])]

\* ---------------------------------------------------------------- state
VARIABLES
    stable_backtrace,   \* cfg(feature = "stable-backtrace"), fixed by the build
    report,             \* the Report a caller of event_from_report holds
    result,             \* the Event the last event_from_report call returned
    builds,             \* event_from_report calls made on `report` so far
    client,             \* whether the active Hub has a client bound
    captured,           \* events handed to Hub::capture_event, in order
    calls,              \* capture_report calls: report, entry point, result
    pc,                 \* per thread: where its capture_report call stands
    cur,                \* per thread: index in `calls` of its running call
    event               \* per thread: the Event its call has built

vars == <<stable_backtrace, report, result, builds,
          client, captured, calls, pc, cur, event>>
build_vars == <<report, result, builds>>
hub_vars == <<client, captured, calls, pc, cur, event>>

Threads == 1..NumThreads
NoReport == [chain |-> <<>>, backtrace |-> NoBacktrace]

\* ------------------------------------------- faulty variants (mutants)
\* The backtrace goes into a record pushed after the chain's records.
event_from_report_push(rep, feature) ==
    LET ev == event_from_error(rep.chain)
    IN  IF feature /\ rep.backtrace.some
        THEN [exception |-> Append(ev.exception,
                 [value |-> "backtrace",
                  stacktrace |-> parse_stacktrace(format_backtrace(rep.backtrace.frames))])]
        ELSE ev

\* The backtrace is set on every record (iter_mut().for_each).
event_from_report_all(rep, feature) ==
    LET ev == event_from_error(rep.chain)
    IN  IF feature /\ rep.backtrace.some
        THEN [exception |->
                 [i \in 1..Len(ev.exception) |->
                     [ev.exception[i] EXCEPT !.stacktrace =
                         parse_stacktrace(format_backtrace(rep.backtrace.frames))]]]
        ELSE ev

\* The cfg gate is missing: the backtrace is attached in every build.
event_from_report_ungated(rep, feature) ==
    LET ev == event_from_error(rep.chain)
        n == Len(ev.exception)
    IN  IF n > 0 /\ rep.backtrace.some
        THEN [ev EXCEPT !.exception[n].stacktrace =
                  parse_stacktrace(format_backtrace(rep.backtrace.frames))]
        ELSE ev

\* The parse result is unwrapped: no frames, no event.
event_from_report_unwrap(rep, feature) ==
    LET ev == event_from_error(rep.chain)
        n == Len(ev.exception)
        st == parse_stacktrace(format_backtrace(rep.backtrace.frames))
    IN  IF feature /\ n > 0 /\ rep.backtrace.some
        THEN IF st.some THEN [ev EXCEPT !.exception[n].stacktrace = st] ELSE NoEvent
        ELSE ev

\* The first record is taken instead of the last (iter_mut().next()).
event_from_report_first(rep, feature) ==
    LET ev == event_from_error(rep.chain)
        n == Len(ev.exception)
    IN  IF feature /\ n > 0 /\ rep.backtrace.some
        THEN [ev EXCEPT !.exception[1].stacktrace =
                  parse_stacktrace(format_backtrace(rep.backtrace.frames))]
        ELSE ev

\* The report's message is parsed instead of its backtrace: no frame found.
event_from_report_wrong_text(rep, feature) ==
    LET ev == event_from_error(rep.chain)
        n == Len(ev.exception)
    IN  IF feature /\ n > 0 /\ rep.backtrace.some
        THEN [ev EXCEPT !.exception[n].stacktrace = parse_stacktrace(<<>>)]
        ELSE ev

\* ------------------------------------------------------ event_from_report
\* pub fn event_from_report(report: &Report) -> Event<'static>
event_from_report(rep, feature) ==
    LET ev == event_from_error(rep.chain)
        n == Len(ev.exception)
    IN  IF feature /\ n > 0 /\ rep.backtrace.some
        THEN [ev EXCEPT !.exception[n].stacktrace =
                  parse_stacktrace(format_backtrace(rep.backtrace.frames))]
        ELSE ev

\* A caller obtains a report from eyre (eyre::eyre!, wrap_err, `?`).
NewReport(r) ==
    /\ report' = r
    /\ result' = NoEvent
    /\ builds' = 0
    /\ UNCHANGED <<stable_backtrace, hub_vars>>

\* Faulty variant: the call takes the backtrace out of the report.
CallEventFromReport_take ==
    /\ report # NoReport
    /\ builds < MaxBuilds
    /\ result' = event_from_report(report, stable_backtrace)
    /\ builds' = builds + 1
    /\ report' = [report EXCEPT !.backtrace = NoBacktrace]
    /\ UNCHANGED <<stable_backtrace, hub_vars>>

\* A caller calls event_from_report(&report): the report is only borrowed.
CallEventFromReport ==
    /\ report # NoReport
    /\ builds < MaxBuilds
    /\ result' = event_from_report(report, stable_backtrace)
    /\ builds' = builds + 1
    /\ UNCHANGED <<report, stable_backtrace, hub_vars>>

\* --------------------------------------------------------- capture_report
\* Reports the concurrent callers pass: one or two links, with or without a
\* one-frame backtrace.
CallReports ==
    {r \in Reports :
        /\ r.chain \in {<<"e1">>, <<"e2", "e1">>}
        /\ r.backtrace \in {NoBacktrace,
                            [some |-> TRUE,
                             frames |-> <<[resolved |-> TRUE, symbol |-> Creator]>>]}}

\* Hub::capture_event as lib.rs uses it: with a client bound the event is
\* taken over and a fresh identifier returned, otherwise Uuid::default().
capture_event_id(log, bound) == IF bound THEN Len(log) + 1 ELSE NilUuid
capture_event_log(log, bound, ev, c) ==
    IF bound THEN Append(log, [event |-> ev, id |-> Len(log) + 1, call |-> c])
    ELSE log

\* A thread enters capture_report(&report), the free function (line 50).
StartFree(t, r) ==
    /\ pc[t] = "idle"
    /\ Len(calls) < MaxCalls
    /\ calls' = Append(calls, [report |-> r, via |-> "free", by |-> t,
                               returned |-> FALSE, ret |-> NilUuid])
    /\ cur' = [cur EXCEPT ![t] = Len(calls) + 1]
    /\ pc' = [pc EXCEPT ![t] = "with_active"]
    /\ UNCHANGED <<stable_backtrace, build_vars, client, captured, event>>

\* A thread enters hub.capture_report(&report), the extension method (line 85).
StartMethod(t, r) ==
    /\ pc[t] = "idle"
    /\ Len(calls) < MaxCalls
    /\ calls' = Append(calls, [report |-> r, via |-> "method", by |-> t,
                               returned |-> FALSE, ret |-> NilUuid])
    /\ cur' = [cur EXCEPT ![t] = Len(calls) + 1]
    /\ pc' = [pc EXCEPT ![t] = "build"]
    /\ UNCHANGED <<stable_backtrace, build_vars, client, captured, event>>

\* Hub::with_active (line 51): run the closure on the hub if it is active,
\* return Default::default() (the nil Uuid) otherwise.
capture_report(t) ==
    /\ pc[t] = "with_active"
    /\ IF client
       THEN /\ pc' = [pc EXCEPT ![t] = "build"]
            /\ UNCHANGED <<calls, cur>>
       ELSE /\ calls' = [calls EXCEPT ![cur[t]].returned = TRUE,
                                      ![cur[t]].ret = NilUuid]
            /\ cur' = [cur EXCEPT ![t] = 0]
            /\ pc' = [pc EXCEPT ![t] = "idle"]
    /\ UNCHANGED <<stable_backtrace, build_vars, client, captured, event>>

\* Faulty variant: the SDK conversion is submitted as it is, without the
\* backtrace step of event_from_report.
Hub_build_plain(t) ==
    /\ pc[t] = "build"
    /\ event' = [event EXCEPT ![t] = event_from_error(calls[cur[t]].report.chain)]
    /\ pc' = [pc EXCEPT ![t] = "capture_event"]
    /\ UNCHANGED <<stable_backtrace, build_vars, client, captured, calls, cur>>

\* Faulty variant: the event is built into one buffer shared by all calls.
Hub_build_shared(t) ==
    /\ pc[t] = "build"
    /\ event' = [u \in Threads |->
                    event_from_report(calls[cur[t]].report, stable_backtrace)]
    /\ pc' = [pc EXCEPT ![t] = "capture_event"]
    /\ UNCHANGED <<stable_backtrace, build_vars, client, captured, calls, cur>>

\* The argument of self.capture_event(...) (line 86): the event is built into
\* a value owned by this call.
Hub_build(t) ==
    /\ pc[t] = "build"
    /\ event' = [event EXCEPT ![t] =
                    event_from_report(calls[cur[t]].report, stable_backtrace)]
    /\ pc' = [pc EXCEPT ![t] = "capture_event"]
    /\ UNCHANGED <<stable_backtrace, build_vars, client, captured, calls, cur>>

\* Faulty variant: the Uuid of capture_event is dropped, nil is returned.
Hub_capture_report_discard(t) ==
    /\ pc[t] = "capture_event"
    /\ captured' = capture_event_log(captured, client, event[t], cur[t])
    /\ calls' = [calls EXCEPT ![cur[t]].returned = TRUE,
                              ![cur[t]].ret = NilUuid]
    /\ event' = [event EXCEPT ![t] = NoEvent]
    /\ cur' = [cur EXCEPT ![t] = 0]
    /\ pc' = [pc EXCEPT ![t] = "idle"]
    /\ UNCHANGED <<stable_backtrace, build_vars, client>>

\* self.capture_event(event) (line 86) and the return of its Uuid.
Hub_capture_report(t) ==
    /\ pc[t] = "capture_event"
    /\ captured' = capture_event_log(captured, client, event[t], cur[t])
    /\ calls' = [calls EXCEPT ![cur[t]].returned = TRUE,
                              ![cur[t]].ret = capture_event_id(captured, client)]
    /\ event' = [event EXCEPT ![t] = NoEvent]
    /\ cur' = [cur EXCEPT ![t] = 0]
    /\ pc' = [pc EXCEPT ![t] = "idle"]
    /\ UNCHANGED <<stable_backtrace, build_vars, client>>

\* ------------------------------------------------------- specifications
Init ==
    /\ stable_backtrace \in BOOLEAN
    /\ report = NoReport
    /\ result = NoEvent
    /\ builds = 0
    /\ client \in BOOLEAN
    /\ captured = <<>>
    /\ calls = <<>>
    /\ pc = [t \in Threads |-> "idle"]
    /\ cur = [t \in Threads |-> 0]
    /\ event = [t \in Threads |-> NoEvent]

\* Callers of event_from_report.
Next ==
    \/ \E r \in Reports : NewReport(r)
    \/ CallEventFromReport

Spec == Init /\ [][Next]_vars

\* Threads calling capture_report on the shared Hub.
NextCapture ==
    \/ \E t \in Threads, r \in CallReports : StartFree(t, r)
    \/ \E t \in Threads, r \in CallReports : StartMethod(t, r)
    \/ \E t \in Threads : capture_report(t)
    \/ \E t \in Threads : Hub_build(t)
    \/ \E t \in Threads : Hub_capture_report(t)

SpecCapture == Init /\ [][NextCapture]_vars

TypeOK ==
    /\ stable_backtrace \in BOOLEAN
    /\ report \in Reports \cup {NoReport}
    /\ builds \in 0..MaxBuilds
    /\ client \in BOOLEAN
    /\ Len(calls) <= MaxCalls
    /\ pc \in [Threads -> {"idle", "with_active", "build", "capture_event"}]
    /\ cur \in [Threads -> 0..MaxCalls]

\* ------------------------------------------------ claims: event_from_report
\* `result` is what event_from_report returned for `report`.
Built == builds > 0
ChainLen == Len(report.chain)
Captured == stable_backtrace /\ report.backtrace.some
Parsed == parse_stacktrace(format_backtrace(report.backtrace.frames))

\* C1: a report whose cause chain has N links gives an event with exactly N
\* exception records, and never an empty exception list.
C1_RecordPerLink ==
    Built => /\ Len(result.exception) = ChainLen
             /\ Len(result.exception) >= 1

C1_Witness ==
    /\ Built
    /\ Captured
    /\ ChainLen = 3
    /\ Len(result.exception) = 3

\* C2: with capture enabled and a backtrace in the report, the parsed
\* backtrace is the stacktrace of the last record, and every other record is
\* the record the SDK conversion produced.
C2_BacktraceOnLastOnly ==
    (Built /\ Captured) =>
        /\ result.exception[ChainLen].stacktrace = Parsed
        /\ result.exception[ChainLen].value =
               event_from_error(report.chain).exception[ChainLen].value
        /\ \A i \in 1..(ChainLen - 1) :
               result.exception[i] = event_from_error(report.chain).exception[i]

C2_Witness ==
    /\ Built
    /\ Captured
    /\ ChainLen >= 2
    /\ Len(report.backtrace.frames) >= 1
    /\ result.exception[ChainLen].stacktrace.some
    /\ ~result.exception[1].stacktrace.some

\* C3: with capture disabled, or enabled without a backtrace in the report,
\* no record of the returned event has a stacktrace.
C3_NoStacktraceOtherwise ==
    (Built /\ ~Captured) =>
        \A i \in 1..Len(result.exception) : ~result.exception[i].stacktrace.some

C3_Witness ==
    /\ Built
    /\ ~stable_backtrace
    /\ report.backtrace.some
    /\ Len(report.backtrace.frames) >= 1
    /\ ChainLen >= 2
    /\ \A i \in 1..Len(result.exception) : ~result.exception[i].stacktrace.some

Degenerate ==
    \/ report.backtrace.frames = <<>>
    \/ \E i \in 1..Len(report.backtrace.frames) : ~report.backtrace.frames[i].resolved

\* C7: for an empty or unresolved backtrace an event is still returned, with
\* a record for every link; its last record has no stacktrace when no frame
\* was parsed, and the parsed frames otherwise.
C7_Total ==
    (Built /\ Captured /\ Degenerate) =>
        /\ Len(result.exception) = ChainLen
        /\ \A i \in 1..ChainLen :
               result.exception[i].value = report.chain[ChainLen + 1 - i]
        /\ LET st == result.exception[ChainLen].stacktrace
           IN  /\ (report.backtrace.frames = <<>>) => ~st.some
               /\ st.some => /\ Len(st.frames) >= 1
                             /\ \A j \in 1..Len(st.frames) :
                                    st.frames[j].function \in Symbols \cup {Unknown}

C7_Witness ==
    /\ Built
    /\ Captured
    /\ report.backtrace.frames = <<>>
    /\ ChainLen >= 2
    /\ Len(result.exception) = ChainLen
    /\ ~result.exception[ChainLen].stacktrace.some

\* C8 as stated: in a chain of two or more links the last record is the
\* deepest cause.
C8_LastIsDeepest ==
    (Built /\ ChainLen >= 2) =>
        result.exception[ChainLen].value = report.chain[ChainLen]

\* C8 amended: the records are in reverse chain order, the first record the
\* deepest cause and the last record the top-level error, and only the last
\* record, the top-level error's, receives the backtrace.
C8_LastIsTopLevel ==
    (Built /\ ChainLen >= 2) =>
        /\ \A i \in 1..ChainLen :
               result.exception[i].value = report.chain[ChainLen + 1 - i]
        /\ \A i \in 1..ChainLen :
               result.exception[i].stacktrace.some => i = ChainLen

C8_Witness ==
    /\ Built
    /\ Captured
    /\ ChainLen = 3
    /\ report.chain[1] # report.chain[3]
    /\ result.exception[3].value = report.chain[1]
    /\ result.exception[3].stacktrace.some

HasCreatorFrame(st) ==
    \E j \in 1..Len(st.frames) : st.frames[j].function = Creator

\* C9 as stated: with capture enabled and a backtrace present, the last
\* record has a non-empty frame sequence with a frame naming the function
\* that created the report.
C9_CreatorFrameAlways ==
    (Built /\ Captured) =>
        LET st == result.exception[ChainLen].stacktrace
        IN  st.some /\ Len(st.frames) >= 1 /\ HasCreatorFrame(st)

\* C9 amended: when the captured backtrace has at least one frame the last
\* record has a non-empty frame sequence, with a frame naming the creating
\* function when the backtrace resolved that function's frame.
C9_CreatorFrameWhenResolved ==
    (Built /\ Captured /\ report.backtrace.frames # <<>>) =>
        LET st == result.exception[ChainLen].stacktrace
            bt == report.backtrace.frames
        IN  /\ st.some
            /\ Len(st.frames) >= 1
            /\ (\E i \in 1..Len(bt) : bt[i].resolved /\ bt[i].symbol = Creator)
                   => HasCreatorFrame(st)

C9_Witness ==
    /\ Built
    /\ Captured
    /\ Len(report.backtrace.frames) = 2
    /\ report.backtrace.frames[1] = [resolved |-> TRUE, symbol |-> Creator]
    /\ HasCreatorFrame(result.exception[ChainLen].stacktrace)

\* --------------------------------------------------- claims: capture_report
\* The entries of `captured` that call c handed to the Hub.
EntriesOf(c) == {k \in 1..Len(captured) : captured[k].call = c}
BuiltFor(c) == event_from_report(calls[c].report, stable_backtrace)

\* C4: every event handed to the Hub, by the free function or by the method
\* of Hub, has the exception list event_from_report returns for the report of
\* the call that handed it over.
C4_DispatchedEqualsBuilt ==
    \A k \in 1..Len(captured) :
        captured[k].event.exception = BuiltFor(captured[k].call).exception

C4_Witness ==
    /\ stable_backtrace
    /\ \E k, l \in 1..Len(captured) :
           /\ calls[captured[k].call].via = "free"
           /\ calls[captured[l].call].via = "method"
           /\ Len(captured[k].event.exception) = 2
           /\ captured[k].event.exception[2].stacktrace.some
           /\ captured[l].event.exception[Len(captured[l].event.exception)].stacktrace.some

\* C5: a returned call's Uuid is the one capture_event produced for its
\* event; without a client bound the call returns the nil Uuid and hands no
\* event over.
C5_ReturnsContextId ==
    \A c \in 1..Len(calls) :
        calls[c].returned =>
            IF client
            THEN \E k \in EntriesOf(c) : /\ calls[c].ret = captured[k].id
                                         /\ calls[c].ret # NilUuid
            ELSE calls[c].ret = NilUuid /\ captured = <<>>

C5_Witness ==
    /\ ~client
    /\ \E c, d \in 1..Len(calls) :
           /\ calls[c].via = "free"
           /\ calls[d].via = "method"
           /\ calls[c].returned /\ calls[c].ret = NilUuid
           /\ calls[d].returned /\ calls[d].ret = NilUuid

\* C10: with a client bound, under every interleaving each call hands over
\* exactly one event, the event holds what event_from_report gives for the
\* call's own report, and the event a call has built and not yet handed over
\* is untouched by the other calls.
C10_CallsIndependent ==
    client =>
        /\ \A c \in 1..Len(calls) :
               /\ Cardinality(EntriesOf(c)) <= 1
               /\ calls[c].returned => Cardinality(EntriesOf(c)) = 1
               /\ \A k \in EntriesOf(c) : captured[k].event = BuiltFor(c)
        /\ \A t \in Threads :
               pc[t] = "capture_event" => event[t] = BuiltFor(cur[t])

C10_Witness ==
    /\ client
    /\ Len(captured) >= 2
    /\ captured[1].call > captured[2].call
    /\ calls[captured[1].call].by # calls[captured[2].call].by
    /\ captured[1].event # captured[2].event

====
